---- MODULE Spec2Model ----
(***************************************************************************)
(* Model of package science (rubyist/science): one Experiment, its         *)
(* construction by NewExperiment, its configuration through the exported   *)
(* fields, and the execution of Experiment.Run, step by step.              *)
(*                                                                         *)
(* Caller-supplied functions are represented by descriptors:               *)
(*   ExperimentFunc  [tag |-> "nil" | "returns" | "panics", val |-> value] *)
(*   ComparatorFunc  "nil" | "DeepEqual" | "firstIsNil" (a custom,         *)
(*                   asymmetric comparator: true iff its first argument is *)
(*                   the nil interface value)                              *)
(*   EnabledFunc     "nil" | "enabledByDefault" | "never"                  *)
(*   PublishFunc     "nil" | "sink"                                        *)
(* Pointers are addresses; address 0 is the nil pointer.                   *)
(***************************************************************************)
EXTENDS Naturals, Sequences, FiniteSets

VARIABLES e, pc, ts, control, candidate, matched,
          log, cmpArgs, published, ret, nextAddr, prev

vars == <<e, pc, ts, control, candidate, matched,
          log, cmpArgs, published, ret, nextAddr, prev>>

(* ------------------------------ bounds --------------------------------- *)

\* integers returned by Control/Candidate are BaseValue .. BaseValue+MaxDelta
MaxDelta == 1
\* a measured call lasts 0 .. MaxDuration ticks
MaxDuration == 1
\* time.Now() at the start of the measured pair reads 0 .. MaxTime
MaxTime == 1
\* addresses 1 .. MaxAddr are available to the allocator
MaxAddr == 6

BaseValue == 42

Names == {"test", "name"}

(* ------------------------------ values --------------------------------- *)

NilValue == [kind |-> "nil", n |-> 0]

Values ==
  {NilValue}
    \cup [kind : {"int"}, n : BaseValue .. (BaseValue + MaxDelta)]
    \cup [kind : {"int64"}, n : {BaseValue}]

NilFunc == [tag |-> "nil", val |-> NilValue]

PanicFunc == [tag |-> "panics", val |-> NilValue]

ExperimentFuncs ==
  {NilFunc, PanicFunc} \cup [tag : {"returns"}, val : Values]

ComparatorFuncs == {"nil", "DeepEqual", "firstIsNil"}

EnabledFuncs == {"nil", "enabledByDefault", "never"}

PublishFuncs == {"nil", "sink"}

ErrNoControl == "control function missing"

ErrNoCandidate == "candidate function missing"

ErrNoComparator == "comparator function missing"

\* a nil *Result (observation)
NilObservation == [addr |-> 0, Duration |-> 0, Value |-> NilValue]

\* a nil *Payload (outcome)
NilPayload ==
  [addr |-> 0, Name |-> "", Timestamp |-> 0, ControlFirst |-> FALSE,
   Matched |-> FALSE, Candidate |-> NilObservation, Control |-> NilObservation]

NoPrev ==
  [valid |-> FALSE, ret |-> "none", log |-> <<>>, cmpArgs |-> <<>>,
   out |-> <<>>, addrs |-> {}]

(* --------------------------- pure functions ---------------------------- *)

\* reflect.DeepEqual on the modelled values: same dynamic type, same number
DeepEqual(a, b) == a.kind = b.kind /\ a.n = b.n

ApplyComparator(c, a, b) ==
  IF c = "DeepEqual" THEN DeepEqual(a, b) ELSE a.kind = "nil"

enabledByDefault == TRUE

ApplyEnabled(f) == IF f = "enabledByDefault" THEN enabledByDefault ELSE FALSE

NewExperiment_noDefaults(name, coin) ==
  [Name |-> name, Control |-> NilFunc, Candidate |-> NilFunc,
   Comparator |-> "nil", Enabled |-> "nil", Publish |-> "nil",
   controlFirst |-> (coin = 0)]

\* coin is the result of rand.Intn(2)
NewExperiment(name, coin) ==
  [Name |-> name, Control |-> NilFunc, Candidate |-> NilFunc,
   Comparator |-> "DeepEqual", Enabled |-> "enabledByDefault",
   Publish |-> "nil", controlFirst |-> (coin = 0)]

CheckRequired_candidateFirst(ex) ==
  IF ex.Candidate.tag = "nil" THEN ErrNoCandidate
  ELSE IF ex.Control.tag = "nil" THEN ErrNoControl
  ELSE IF ex.Comparator = "nil" THEN ErrNoComparator
  ELSE "ok"

CheckRequired_needsPublish(ex) ==
  IF ex.Control.tag = "nil" THEN ErrNoControl
  ELSE IF ex.Candidate.tag = "nil" THEN ErrNoCandidate
  ELSE IF ex.Comparator = "nil" THEN ErrNoComparator
  ELSE IF ex.Publish = "nil" THEN "publish function missing"
  ELSE "ok"

\* the three nil checks at the head of Run; "ok" when none fires
CheckRequired(ex) ==
  IF ex.Control.tag = "nil" THEN ErrNoControl
  ELSE IF ex.Candidate.tag = "nil" THEN ErrNoCandidate
  ELSE IF ex.Comparator = "nil" THEN ErrNoComparator
  ELSE "ok"

Disabled_nilOnly(ex) == ex.Enabled = "nil"

Disabled_notNegated(ex) == ex.Enabled = "nil" \/ ApplyEnabled(ex.Enabled)

\* e.Enabled == nil || !e.Enabled()
Disabled(ex) == ex.Enabled = "nil" \/ ~ApplyEnabled(ex.Enabled)

\* the calls of e.Enabled made by that condition (none when it is nil)
EnabledCalls(ex) == IF ex.Enabled = "nil" THEN <<>> ELSE <<"Enabled">>

controlRunsFirst(ex) == TRUE

\* the *Result built by observe for a call of f that returned after d ticks
observe(f, d, addr) == [addr |-> addr, Duration |-> d, Value |-> f.val]

CompareArgs_swapped(ctl, cand) == <<cand.Value, ctl.Value>>

\* the arguments of e.Comparator(control.Value, candidate.Value)
CompareArgs(ctl, cand) == <<ctl.Value, cand.Value>>

MakePayload_noControl(ex, t, m, ctl, cand, addr) ==
  [addr |-> addr, Name |-> ex.Name, Matched |-> m,
   ControlFirst |-> controlRunsFirst(ex), Timestamp |-> t,
   Candidate |-> cand, Control |-> NilObservation]

MakePayload_storedFlag(ex, t, m, ctl, cand, addr) ==
  [addr |-> addr, Name |-> ex.Name, Matched |-> m,
   ControlFirst |-> ex.controlFirst, Timestamp |-> t,
   Candidate |-> cand, Control |-> ctl]

\* the &Payload{...} literal of Run
MakePayload(ex, t, m, ctl, cand, addr) ==
  [addr |-> addr, Name |-> ex.Name, Matched |-> m,
   ControlFirst |-> controlRunsFirst(ex), Timestamp |-> t,
   Candidate |-> cand, Control |-> ctl]

(* ------------------------ record of a finished call -------------------- *)

Outcome(p) ==
  [Name |-> p.Name, Matched |-> p.Matched, ControlFirst |-> p.ControlFirst,
   Control |-> p.Control.Value, Candidate |-> p.Candidate.Value]

Summary ==
  [valid |-> TRUE, ret |-> ret, log |-> log, cmpArgs |-> cmpArgs,
   out |-> [i \in DOMAIN published |-> Outcome(published[i])],
   addrs |-> UNION {{published[i].addr, published[i].Control.addr,
                     published[i].Candidate.addr} : i \in DOMAIN published}]

Count(op) == Cardinality({i \in DOMAIN log : log[i] = op})

Before(a, b) ==
  \E i, j \in DOMAIN log : i < j /\ log[i] = a /\ log[j] = b

Quiet == pc \in {"idle", "returned"}

(* -------------------------------- state -------------------------------- *)

Init ==
  /\ \E name \in Names, coin \in 0 .. 1 : e = NewExperiment(name, coin)
  /\ pc = "idle"
  /\ ts = 0
  /\ control = NilObservation
  /\ candidate = NilObservation
  /\ matched = FALSE
  /\ log = <<>>
  /\ cmpArgs = <<>>
  /\ published = <<>>
  /\ ret = "none"
  /\ nextAddr = 1
  /\ prev = NoPrev

\* the caller is between calls of Run; what the last call left is dropped
Reconfigure ==
  /\ Quiet
  /\ pc' = "idle"
  /\ ts' = 0
  /\ control' = NilObservation
  /\ candidate' = NilObservation
  /\ matched' = FALSE
  /\ log' = <<>>
  /\ cmpArgs' = <<>>
  /\ published' = <<>>
  /\ ret' = "none"
  /\ prev' = NoPrev
  /\ UNCHANGED nextAddr

Construct ==
  /\ Reconfigure
  /\ \E name \in Names, coin \in 0 .. 1 : e' = NewExperiment(name, coin)

SetControl ==
  /\ Reconfigure
  /\ \E f \in ExperimentFuncs : e' = [e EXCEPT !.Control = f]

SetCandidate ==
  /\ Reconfigure
  /\ \E f \in ExperimentFuncs : e' = [e EXCEPT !.Candidate = f]

SetComparator ==
  /\ Reconfigure
  /\ \E c \in ComparatorFuncs : e' = [e EXCEPT !.Comparator = c]

SetEnabled ==
  /\ Reconfigure
  /\ \E f \in EnabledFuncs : e' = [e EXCEPT !.Enabled = f]

SetPublish ==
  /\ Reconfigure
  /\ \E p \in PublishFuncs : e' = [e EXCEPT !.Publish = p]

\* entry of Run and its three nil checks
RunStart ==
  /\ Quiet
  /\ nextAddr + 2 <= MaxAddr
  /\ prev' = IF pc = "returned" THEN Summary ELSE NoPrev
  /\ ts' = 0
  /\ control' = NilObservation
  /\ candidate' = NilObservation
  /\ matched' = FALSE
  /\ log' = <<>>
  /\ cmpArgs' = <<>>
  /\ published' = <<>>
  /\ IF CheckRequired(e) = "ok"
       THEN pc' = "gate" /\ ret' = "none"
       ELSE pc' = "returned" /\ ret' = CheckRequired(e)
  /\ UNCHANGED <<e, nextAddr>>

\* the enablement gate, the unobserved Control call, and ts := time.Now()
RunGate ==
  /\ pc = "gate"
  /\ IF Disabled(e)
       THEN /\ log' = log \o EnabledCalls(e) \o <<"Control">>
            /\ ret' = IF e.Control.tag = "panics" THEN "panic" ELSE "nil"
            /\ pc' = "returned"
            /\ ts' = ts
       ELSE /\ log' = log \o EnabledCalls(e)
            /\ ret' = ret
            /\ pc' = "first"
            /\ ts' \in 0 .. MaxTime
  /\ UNCHANGED <<e, control, candidate, matched, cmpArgs, published,
                 nextAddr, prev>>

\* control = observe(e.Control) or candidate = observe(e.Candidate);
\* a panic of the observed function unwinds through observe and Run
Observe(which, next) ==
  /\ log' = Append(log, which)
  /\ IF e[which].tag = "panics"
       THEN /\ ret' = "panic"
            /\ pc' = "returned"
            /\ UNCHANGED <<control, candidate, nextAddr>>
       ELSE /\ ret' = ret
            /\ pc' = next
            /\ nextAddr' = nextAddr + 1
            /\ \E d \in 0 .. MaxDuration :
                 IF which = "Control"
                   THEN /\ control' = observe(e.Control, d, nextAddr)
                        /\ candidate' = candidate
                   ELSE /\ candidate' = observe(e.Candidate, d, nextAddr)
                        /\ control' = control
  /\ UNCHANGED <<e, ts, matched, cmpArgs, published, prev>>

RunFirst ==
  /\ pc = "first"
  /\ IF controlRunsFirst(e)
       THEN Observe("Control", "second")
       ELSE Observe("Candidate", "second")

RunSecond ==
  /\ pc = "second"
  /\ IF controlRunsFirst(e)
       THEN Observe("Candidate", "compare")
       ELSE Observe("Control", "compare")

RunCompare_reflip ==
  /\ pc = "compare"
  /\ log' = Append(log, "Comparator")
  /\ cmpArgs' = Append(cmpArgs, CompareArgs(control, candidate))
  /\ matched' = ApplyComparator(e.Comparator, CompareArgs(control, candidate)[1],
                                CompareArgs(control, candidate)[2])
  /\ pc' = "publish"
  /\ e' = [e EXCEPT !.controlFirst = ~@]
  /\ UNCHANGED <<ts, control, candidate, published, ret, nextAddr, prev>>

\* matched := e.Comparator(control.Value, candidate.Value)
RunCompare ==
  /\ pc = "compare"
  /\ log' = Append(log, "Comparator")
  /\ cmpArgs' = Append(cmpArgs, CompareArgs(control, candidate))
  /\ matched' = ApplyComparator(e.Comparator, CompareArgs(control, candidate)[1],
                                CompareArgs(control, candidate)[2])
  /\ pc' = "publish"
  /\ UNCHANGED <<e, ts, control, candidate, published, ret, nextAddr, prev>>

\* if e.Publish != nil { ... e.Publish(payload) }; return nil
RunPublish ==
  /\ pc = "publish"
  /\ IF e.Publish # "nil"
       THEN /\ published' = Append(published,
                 MakePayload(e, ts, matched, control, candidate, nextAddr))
            /\ nextAddr' = nextAddr + 1
            /\ log' = Append(log, "Publish")
       ELSE UNCHANGED <<published, nextAddr, log>>
  /\ ret' = "nil"
  /\ pc' = "returned"
  /\ UNCHANGED <<e, ts, control, candidate, matched, cmpArgs, prev>>

Next ==
  \/ Construct
  \/ SetControl
  \/ SetCandidate
  \/ SetComparator
  \/ SetEnabled
  \/ SetPublish
  \/ RunStart
  \/ RunGate
  \/ RunFirst
  \/ RunSecond
  \/ RunCompare
  \/ RunPublish

Spec == Init /\ [][Next]_vars

TypeOK ==
  /\ e.Name \in Names
  /\ e.Control \in ExperimentFuncs
  /\ e.Candidate \in ExperimentFuncs
  /\ e.Comparator \in ComparatorFuncs
  /\ e.Enabled \in EnabledFuncs
  /\ e.Publish \in PublishFuncs
  /\ e.controlFirst \in BOOLEAN
  /\ pc \in {"idle", "gate", "first", "second", "compare", "publish", "returned"}
  /\ nextAddr \in 1 .. (MaxAddr + 1)
  /\ Len(published) <= 1

(* ------------------------------- claims -------------------------------- *)

Returned == pc = "returned"

AllSet ==
  e.Control.tag # "nil" /\ e.Candidate.tag # "nil" /\ e.Comparator # "nil"

NothingInvoked == log = <<>> /\ cmpArgs = <<>> /\ published = <<>>

\* C1: Run checks control, candidate, comparator in that order and returns
\* the error of the first one that is nil; in each of these cases none of
\* Enabled, Control, Candidate, Comparator or Publish is invoked.
C1_RequiredFieldsInOrder ==
  Returned =>
    /\ e.Control.tag = "nil" => ret = ErrNoControl /\ NothingInvoked
    /\ e.Control.tag # "nil" /\ e.Candidate.tag = "nil"
         => ret = ErrNoCandidate /\ NothingInvoked
    /\ e.Control.tag # "nil" /\ e.Candidate.tag # "nil" /\ e.Comparator = "nil"
         => ret = ErrNoComparator /\ NothingInvoked

C1_Witness ==
  /\ Returned
  /\ e.Control.tag = "returns"
  /\ e.Candidate.tag = "nil"
  /\ e.Comparator = "nil"
  /\ e.Publish = "sink"
  /\ ret = ErrNoCandidate

\* C2: with the three required fields set and Enabled nil or returning
\* false, Run executes Control exactly once, never executes Candidate, never
\* invokes Comparator or Publish (even with a sink), and returns nil.
C2_DisabledRunsControlOnly ==
  (/\ Returned
   /\ AllSet
   /\ e.Enabled \in {"nil", "never"}
   /\ e.Control.tag = "returns")
    => /\ Count("Control") = 1
       /\ Count("Candidate") = 0
       /\ Count("Comparator") = 0
       /\ Count("Publish") = 0
       /\ cmpArgs = <<>>
       /\ published = <<>>
       /\ ret = "nil"

C2_Witness ==
  /\ Returned
  /\ AllSet
  /\ e.Enabled = "never"
  /\ e.Publish = "sink"
  /\ e.Control.tag = "returns"
  /\ log = <<"Enabled", "Control">>
  /\ ret = "nil"

BothReturn == e.Control.tag = "returns" /\ e.Candidate.tag = "returns"

FreshWithControlAndCandidate ==
  \E coin \in 0 .. 1 :
    e = [NewExperiment(e.Name, coin) EXCEPT !.Control = e.Control,
                                            !.Candidate = e.Candidate]

\* C3: with the three required fields set and Enabled returning true, one
\* Run executes Control exactly once and Candidate exactly once, whatever
\* the two functions return and whether or not a sink is set; an experiment
\* fresh from NewExperiment with only Control and Candidate assigned takes
\* this path.
C3_EnabledRunsBothOnce ==
  /\ (/\ Returned
      /\ AllSet
      /\ e.Enabled = "enabledByDefault"
      /\ BothReturn)
       => Count("Control") = 1 /\ Count("Candidate") = 1
  /\ (Returned /\ FreshWithControlAndCandidate /\ BothReturn)
       => Count("Control") = 1 /\ Count("Candidate") = 1

C3_Witness ==
  /\ Returned
  /\ FreshWithControlAndCandidate
  /\ BothReturn
  /\ e.Control.val # e.Candidate.val
  /\ Count("Control") = 1
  /\ Count("Candidate") = 1

\* C4: on the enabled path a panic raised inside Candidate does not
\* propagate out of Run: Run returns nil, Control is executed exactly once
\* and its observation carries the value Control returned.
C4_CandidatePanicIsolated ==
  (/\ Returned
   /\ AllSet
   /\ e.Enabled = "enabledByDefault"
   /\ e.Control.tag = "returns"
   /\ e.Candidate.tag = "panics")
    => /\ ret = "nil"
       /\ Count("Control") = 1
       /\ control.Value = e.Control.val

\* C5: on the enabled path Control is executed before Candidate when the
\* experiment's controlFirst flag is true, and Candidate before Control when
\* it is false.
C5_OrderFollowsFlag ==
  (Count("Control") = 1 /\ Count("Candidate") = 1)
    => /\ e.controlFirst => Before("Control", "Candidate")
       /\ ~e.controlFirst => Before("Candidate", "Control")

ExpectedMatch ==
  IF e.Comparator = "DeepEqual"
    THEN e.Control.val = e.Candidate.val
    ELSE e.Control.val = NilValue

\* C6: for every enabled Run with a sink, the published outcome has the
\* experiment's Name, the value Control returned, the value Candidate
\* returned, and Matched is the result of the Comparator invoked once with
\* (control value, candidate value) in that order; with the default
\* comparator Matched is true exactly when the two values are equal.
C6_PublishedOutcome ==
  (/\ Returned
   /\ AllSet
   /\ e.Enabled = "enabledByDefault"
   /\ BothReturn
   /\ e.Publish = "sink")
    => /\ Len(published) = 1
       /\ published[1].Name = e.Name
       /\ published[1].Control.Value = e.Control.val
       /\ published[1].Candidate.Value = e.Candidate.val
       /\ Count("Comparator") = 1
       /\ cmpArgs = << <<e.Control.val, e.Candidate.val>> >>
       /\ published[1].Matched = ExpectedMatch

C6_Witness ==
  /\ Returned
  /\ e.Comparator = "DeepEqual"
  /\ e.Control = [tag |-> "returns", val |-> [kind |-> "int", n |-> 42]]
  /\ e.Candidate = [tag |-> "returns", val |-> [kind |-> "int", n |-> 43]]
  /\ Len(published) = 1
  /\ ~published[1].Matched

\* C7: on the enabled path with a sink, Publish is invoked exactly once per
\* Run with a non-nil outcome whose Control and Candidate observations are
\* non-nil, after Control, Candidate and the Comparator have been invoked
\* and before Run returns; with no sink no outcome is handed to anyone.
C7_PublishOnceAtEnd ==
  /\ Len(published) = Count("Publish")
  /\ Count("Publish") >= 1
       => /\ Before("Control", "Publish")
          /\ Before("Candidate", "Publish")
          /\ Before("Comparator", "Publish")
  /\ \A i \in DOMAIN published :
       /\ published[i].addr # 0
       /\ published[i].Control.addr # 0
       /\ published[i].Candidate.addr # 0
  /\ e.Publish = "nil" => published = <<>>
  /\ (/\ Returned
      /\ AllSet
      /\ e.Enabled = "enabledByDefault"
      /\ BothReturn
      /\ e.Publish = "sink")
       => Count("Publish") = 1 /\ log[Len(log)] = "Publish"

C7_Witness ==
  /\ Returned
  /\ e.Publish = "sink"
  /\ log = <<"Enabled", "Control", "Candidate", "Comparator", "Publish">>
  /\ Len(published) = 1
  /\ published[1].Control.addr # 0
  /\ published[1].Candidate.addr # 0

\* C8: in every published outcome ControlFirst is true if and only if
\* Control began executing before Candidate in that Run, for both values of
\* the construction-time ordering flag.
C8_ControlFirstReportsOrder ==
  \A i \in DOMAIN published :
    published[i].ControlFirst <=> Before("Control", "Candidate")

C8_Witness ==
  /\ Returned
  /\ ~e.controlFirst
  /\ Len(published) = 1
  /\ published[1].ControlFirst
  /\ Before("Control", "Candidate")

\* C9: whenever the three required fields are set and the caller's
\* functions return normally, Run returns nil for every Enabled (nil, false,
\* true), comparator result and Publish (set or nil); a mismatch shows only
\* as Matched = false in the published outcome.
C9_OnlyPreconditionErrors ==
  (/\ Returned
   /\ AllSet
   /\ e.Control.tag = "returns"
   /\ e.Candidate.tag = "returns" \/ e.Enabled \in {"nil", "never"})
    => /\ ret = "nil"
       /\ \A i \in DOMAIN published :
            published[i].Matched = ExpectedMatch

C9_Witness ==
  /\ Returned
  /\ AllSet
  /\ BothReturn
  /\ e.Enabled = "enabledByDefault"
  /\ e.Publish = "nil"
  /\ ~ExpectedMatch
  /\ Count("Comparator") = 1
  /\ ret = "nil"

SameAsPrevious ==
  /\ ret = prev.ret
  /\ log = prev.log
  /\ cmpArgs = prev.cmpArgs
  /\ Summary.out = prev.out
  /\ Summary.addrs \cap prev.addrs = {}

\* C10: no step of Run modifies the Experiment, and a Run that follows
\* another Run on the unchanged configuration yields the same error result,
\* the same execution order and an outcome with the same Name, Matched,
\* ControlFirst and observation values, in freshly allocated records.
C10_RunLeavesExperimentUnchanged ==
  /\ [][pc' # "idle" => e' = e]_vars
  /\ [](Returned /\ prev.valid => SameAsPrevious)

C10_Witness ==
  /\ Returned
  /\ prev.valid
  /\ Len(prev.out) = 1
  /\ Len(published) = 1
  /\ published[1].addr \notin prev.addrs

====
